---- MODULE Spec2Model ----
(***************************************************************************)
(* Model of src/src/batchHelper.ts: the bulk helpers batchGetAll,          *)
(* batchPutAll and batchScanAll, the process-wide backoff settings and     *)
(* configure.  One bulk call is followed from its invocation to its        *)
(* settlement; every action is one synchronous segment of the async        *)
(* function, from one await to the next.  The DynamoDB client and the      *)
(* timer are the environment.                                              *)
(***************************************************************************)
EXTENDS Integers, Sequences, FiniteSets, TLC

VARIABLES
    backoffInitial,  \* module setting (ms)
    backoffMax,      \* module setting (ms)
    backoffFactor,   \* module setting
    op,              \* which helper is running: "none", "get", "put", "scan"
    pc,              \* "idle", "inflight", "waiting", "done", "failed"
    input,           \* the RequestItems map of the call: present?, its table names
    nUnits,          \* number of keys / items the caller passed
    unprocessed,     \* unprocessedKeys / unprocessedItems: the pending queue
    request,         \* the chunk carried by the request in flight
    results,         \* the records accumulated so far
    backoff,         \* the call's current backoff (ms)
    lastEvalKey,     \* batchScanAll's cursor (Undefined when absent)
    startKey,        \* ExclusiveStartKey carried by the scan in flight
    retval,          \* <<>> while nothing is returned, <<value>> once resolved
    error,           \* the error the call rejected with ("none" otherwise)
    calls,           \* number of dynamodb.send calls issued by the call
    nWaits,          \* number of wait(millis) calls made by the call
    lastWait,        \* argument of the latest wait(millis) call
    consec,          \* backend: length of the current run of residual rounds
    nResidual,       \* backend: responses that reported unprocessed units
    nRaised,         \* backend: calls that raised an error
    residualUnits,   \* backend: unprocessed units reported, over all rounds
    stored,          \* backend: keys that have an item in the table
    served,          \* backend: keys / put units it has processed
    returned,        \* backend: all records it has returned, in order
    abandoned,       \* backend: put units of the calls that raised
    submits,         \* backend: how often each unit has been submitted
    scanPlan,        \* backend: the cursors its successive scan pages return
    sentCursors,     \* backend: the cursor each scan call carried
    raisedError,     \* backend: the error it raised last ("none" otherwise)
    steady,          \* no setting has changed since the call started
    hasCallback,     \* batchPutAll was given a logCallback
    logged,          \* logCallback: number of invocations, latest argument
    logsAtSend,      \* backend: invocations of logCallback made before the latest send
    reported,        \* the round's UnprocessedKeys / UnprocessedItems list
    caller           \* caller: its key / item list, its scan request's cursor

vars == <<backoffInitial, backoffMax, backoffFactor, op, pc, input, nUnits,
          unprocessed, request, results, backoff, lastEvalKey, startKey,
          retval, error, calls, nWaits, lastWait, consec, nResidual, nRaised,
          residualUnits, stored, served, returned, abandoned, submits,
          scanPlan, sentCursors, raisedError, steady, hasCallback, logged,
          logsAtSend, reported, caller>>

settings == <<backoffInitial, backoffMax, backoffFactor>>
cfgVars  == <<backoffInitial, backoffMax, backoffFactor, steady>>
idVars   == <<op, input, nUnits, stored, hasCallback>>
putLog   == <<logged, logsAtSend>>
scanVars == <<lastEvalKey, startKey, scanPlan, sentCursors>>
waitVars == <<nWaits, lastWait>>
callVars == <<op, pc, input, nUnits, unprocessed, request, results, backoff,
              lastEvalKey, startKey, retval, error, hasCallback, logged,
              reported>>
envVars  == <<calls, nWaits, lastWait, consec, nResidual, nRaised,
              residualUnits, stored, served, returned, abandoned, submits,
              scanPlan, sentCursors, raisedError, logsAtSend, caller>>

----------------------------------------------------------------------------
(* Bounds of the model *)

MaxCalls == 8      \* the backend reports residual only before its MaxCalls-th call
MaxCfgCalls == 3   \* the same, in the runs that reconfigure during a call
MaxExtra == 1      \* units a request holds beyond full chunks
MaxPages == 2      \* most continuation cursors a scan returns
MaxLiveCalls == 4  \* the same as MaxCalls, in the runs checked for completion
MaxAdvCalls == 9   \* calls followed against the backend that processes nothing

(* Program constants *)

batchGetLimit == 100
batchWriteLimit == 25
DefaultBackoffInitial == 1000
DefaultBackoffMax == 30000
DefaultBackoffFactor == 2

Undefined == 0   \* the absent cursor; real cursors are 1, 2

----------------------------------------------------------------------------
(* Helpers *)

\* Math.min
Min(a, b) == IF a <= b THEN a ELSE b

SeqToSet(s) == {s[i] : i \in 1..Len(s)}

\* The caller's keys / items: unit i is the i-th element of the input list
\* (for batchPutAll, the put unit { PutRequest: { Item: items[i] } }).
Range1(n) == [i \in 1..n |-> i]

\* Array.prototype.splice(0, k): the removed head and what stays in the array.
Splice(q, k) == [removed |-> SubSeq(q, 1, k), rest |-> SubSeq(q, k + 1, Len(q))]

\* What the caller holds: the Keys / items array it passed, and the
\* ExclusiveStartKey of the scan request object it passed.
CallerInput(units) == [units |-> units, startKey |-> Undefined]

\* Faulty variant: the helper works on the caller's own array and object.
SharedWithCaller(c, q, k) == [units |-> q, startKey |-> k]

\* [...Keys], items.map(...), { ...input }: the helper's queue q and request
\* cursor k live in fresh objects, what the caller holds is not written.
PrivateCopy(c, q, k) == c

\* Faulty variant: the residual is put behind the pending units (push).
UnshiftAppended(q, items) == q \o items

\* Faulty variant: the residual is dropped instead of being put back.
UnshiftDropped(q, items) == q

\* Array.prototype.unshift(...items): items go in front, in their order.
Unshift(q, items) == items \o q

\* Faulty variant: the round's records replace the accumulated ones.
AccumulateOverwrite(res, responseObjects) == responseObjects

\* results = [...results, ...responseObjects]
Accumulate(res, responseObjects) == res \o responseObjects

\* Faulty variant: the whole queue is taken, whatever the limit.
ChunkSizeUnlimited(q, limit) == Len(q)

\* Math.min(unprocessed.length, limit)
ChunkSize(q, limit) == Min(Len(q), limit)

\* Faulty variant: the backoff grows without the cap.
BackoffGrowUncapped(b) == b * backoffFactor

\* Faulty variant: the cap is applied before the growth.
BackoffGrowCapFirst(b) == Min(b, backoffMax) * backoffFactor

\* backoff = Math.min(backoff * backoffFactor, backoffMax)
BackoffGrow(b) == Min(b * backoffFactor, backoffMax)

\* let backoff = backoffInitial
BackoffStart == backoffInitial

\* Faulty variant: the backoff is kept after a round without unprocessed units.
BackoffResetKept == backoff

\* backoff = backoffInitial, after a round without unprocessed units
BackoffReset == backoffInitial

\* Faulty variant: only an empty map is rejected.
SingleTableOrMore(tables) == Cardinality(tables) >= 1

\* requestItemsTables.length !== 1 throws
SingleTable(tables) == Cardinality(tables) = 1

\* while (lastEvalKey !== undefined)
ScanContinue(key) == key # Undefined

\* Faulty variant: the spread order is swapped, so a cursor already in input wins.
MergeCursorStale(inputStartKey, key) ==
    IF inputStartKey # Undefined THEN inputStartKey ELSE key

\* { ...input, ...(lastEvalKey && { ExclusiveStartKey: lastEvalKey }) }
MergeCursor(inputStartKey, key) == IF key # Undefined THEN key ELSE inputStartKey

----------------------------------------------------------------------------
(* The caller's inputs *)

KeyCounts == {0, 1, 2, batchGetLimit + MaxExtra}
ItemCounts == {0, 1, batchWriteLimit + MaxExtra, 2 * batchWriteLimit + MaxExtra}
CfgCounts == {1, 2}
E2ECounts == 1..250   \* the scenario is the run with 250 keys
TableNames == {"t1", "t2"}

\* batchGetInput.RequestItems: absent, or a map from table names to key lists.
RequestItemsChoices ==
    {[present |-> FALSE, tables |-> {}]} \cup
    {[present |-> TRUE, tables |-> t] : t \in SUBSET TableNames}

OneTable == [present |-> TRUE, tables |-> {"t1"}]

\* options of configure: a field is absent, a number, or a value of another
\* type (here the numeric string "7").
OptionChoices(numbers) ==
    {[type |-> "undefined", value |-> 0], [type |-> "string", value |-> 7]} \cup
    {[type |-> "number", value |-> v] : v \in numbers}

InitialChoices == OptionChoices({DefaultBackoffInitial, 3 * DefaultBackoffInitial})
MaxChoices == OptionChoices({DefaultBackoffMax, 2 * DefaultBackoffInitial})
FactorChoices == OptionChoices({DefaultBackoffFactor, 0})

----------------------------------------------------------------------------
(* The backend (DynamoDB behind dynamodb.send) and the timer *)

BackendErrors == {"E1", "E2"}

\* The unprocessed lists the backend may report for a chunk: none of it, all
\* of it, its first unit, or its last and first units in that order.
Residuals(chunk) ==
    IF Len(chunk) = 0 THEN {<<>>}
    ELSE IF Len(chunk) = 1 THEN {<<>>, chunk}
    ELSE {<<>>, chunk, <<chunk[1]>>, <<chunk[Len(chunk)], chunk[1]>>}

BackendResidual(chunk, cap) ==
    IF calls < cap THEN Residuals(chunk) ELSE {<<>>}

\* The backend of the end-to-end scenario: the last 30 keys of the chunk are
\* unprocessed in the first two rounds, none afterwards.
E2EResidual(chunk) ==
    IF calls <= 2
    THEN SubSeq(chunk, Len(chunk) - Min(30, Len(chunk)) + 1, Len(chunk))
    ELSE <<>>

\* The units of the chunk the backend did process.
Processed(chunk, unp) == SelectSeq(chunk, LAMBDA k : k \notin SeqToSet(unp))

\* Responses[table]: the items of the processed keys that exist in the table.
Found(keys) == SelectSeq(keys, LAMBDA k : k \in stored)

StoredChoices(n) == {1..n, (1..n) \ {1}}

\* The cursors a scan may return on its successive pages.
ScanPlans == UNION {[1..k -> {1, 2}] : k \in 0..MaxPages}

PageSizes == {0, 5, 10}

\* The items of the page returned by scan call number c.
Page(c, size) == [i \in 1..size |-> 100 * c + i]

\* LastEvaluatedKey of the response to scan call number c.
Cursor(c) == IF c <= Len(scanPlan) THEN scanPlan[c] ELSE Undefined

\* logCallback before its first invocation.
NoLog == [n |-> 0, last |-> ""]

\* logCallback?.(message) / if (logCallback) logCallback(message)
Logged(cb, lg, message) == IF cb THEN [n |-> lg.n + 1, last |-> message] ELSE lg

\* Faulty variant: the size of the queue before the chunk is taken is logged.
ProgressArgBefore(q, chunk) == ToString(Len(q) + Len(chunk))

\* unprocessedItems.length.toString(), read after the splice
ProgressArg(q, chunk) == ToString(Len(q))

\* dynamodb.send(command): one more call, carrying the chunk.
Send(sub, chunk) ==
    /\ calls' = calls + 1
    /\ submits' = [u \in DOMAIN sub |->
                     IF u \in SeqToSet(chunk) THEN sub[u] + 1 ELSE sub[u]]

\* Faulty variant: the backoff is grown before the wait is started.
WaitGrown(millis) ==
    /\ nWaits' = nWaits + 1
    /\ lastWait' = BackoffGrow(millis)

\* wait(millis): the timer is started.
Wait(millis) ==
    /\ nWaits' = nWaits + 1
    /\ lastWait' = millis

\* The backend's bookkeeping of a response that reports unp as unprocessed.
Responded(unp) ==
    /\ reported' = unp
    /\ served' = served \cup SeqToSet(Processed(request, unp))
    /\ residualUnits' = residualUnits + Len(unp)
    /\ nResidual' = IF Len(unp) # 0 THEN nResidual + 1 ELSE nResidual
    /\ consec' = IF Len(unp) # 0 THEN consec + 1 ELSE 0

----------------------------------------------------------------------------

Init ==
    /\ backoffInitial = DefaultBackoffInitial
    /\ backoffMax = DefaultBackoffMax
    /\ backoffFactor = DefaultBackoffFactor
    /\ op = "none"
    /\ pc = "idle"
    /\ input = [present |-> FALSE, tables |-> {}]
    /\ nUnits = 0
    /\ unprocessed = <<>>
    /\ request = <<>>
    /\ results = <<>>
    /\ backoff = 0
    /\ lastEvalKey = Undefined
    /\ startKey = Undefined
    /\ retval = <<>>
    /\ error = "none"
    /\ calls = 0
    /\ nWaits = 0
    /\ lastWait = 0
    /\ consec = 0
    /\ nResidual = 0
    /\ nRaised = 0
    /\ residualUnits = 0
    /\ stored = {}
    /\ served = {}
    /\ returned = <<>>
    /\ abandoned = {}
    /\ submits = <<>>
    /\ scanPlan = <<>>
    /\ sentCursors = <<>>
    /\ raisedError = "none"
    /\ steady = TRUE
    /\ hasCallback = FALSE
    /\ logged = NoLog
    /\ logsAtSend = 0
    /\ reported = <<>>
    /\ caller = CallerInput(<<>>)

\* Faulty variant: every field that is present is stored, whatever its type.
SettingIfPresent(option, current) ==
    IF option.type # "undefined" THEN option.value ELSE current

\* if (typeof options.x === "number") { x = options.x }
Setting(option, current) ==
    IF option.type = "number" THEN option.value ELSE current

\* Faulty variant: configure also clamps the backoff of the call in progress.
ConfigureRetroactive(oi, om, of) ==
    /\ backoffInitial' = Setting(oi, backoffInitial)
    /\ backoffMax' = Setting(om, backoffMax)
    /\ backoffFactor' = Setting(of, backoffFactor)
    /\ steady' = (steady /\ (pc = "idle" \/ settings' = settings))
    /\ backoff' = Min(backoff, backoffMax')
    /\ UNCHANGED <<op, pc, input, nUnits, unprocessed, request, results,
                   lastEvalKey, startKey, retval, error, hasCallback, logged,
                   reported, envVars>>

\* configure(options)
Configure(oi, om, of) ==
    /\ backoffInitial' = Setting(oi, backoffInitial)
    /\ backoffMax' = Setting(om, backoffMax)
    /\ backoffFactor' = Setting(of, backoffFactor)
    /\ steady' = (steady /\ (pc = "idle" \/ settings' = settings))
    /\ UNCHANGED <<callVars, envVars>>

----------------------------------------------------------------------------
(* batchGetAll *)

\* Faulty variant: the loop gives up after three retries.
GetLoopCapped(q, res, sub) ==
    IF Len(q) # 0 /\ nWaits < 3
    THEN LET s == Splice(q, ChunkSize(q, batchGetLimit)) IN
         /\ request' = s.removed
         /\ unprocessed' = s.rest
         /\ Send(sub, s.removed)
         /\ pc' = "inflight"
         /\ retval' = retval
    ELSE /\ request' = request
         /\ unprocessed' = q
         /\ calls' = calls
         /\ submits' = sub
         /\ pc' = "done"
         /\ retval' = <<res>>

\* Faulty variant: "if" in place of "while", the loop body runs once.
GetLoopOnce(q, res, sub) ==
    IF Len(q) # 0 /\ calls = 0
    THEN LET s == Splice(q, ChunkSize(q, batchGetLimit)) IN
         /\ request' = s.removed
         /\ unprocessed' = s.rest
         /\ Send(sub, s.removed)
         /\ pc' = "inflight"
         /\ retval' = retval
    ELSE /\ request' = request
         /\ unprocessed' = q
         /\ calls' = calls
         /\ submits' = sub
         /\ pc' = "done"
         /\ retval' = <<res>>

\* The head of the while loop: send the next chunk, or return the results.
GetLoop(q, res, sub) ==
    IF Len(q) # 0
    THEN LET s == Splice(q, ChunkSize(q, batchGetLimit)) IN
         /\ request' = s.removed
         /\ unprocessed' = s.rest
         /\ Send(sub, s.removed)
         /\ pc' = "inflight"
         /\ retval' = retval
    ELSE /\ request' = request
         /\ unprocessed' = q
         /\ calls' = calls
         /\ submits' = sub
         /\ pc' = "done"
         /\ retval' = <<res>>

\* batchGetAll(dynamodb, batchGetInput) up to its first await, return or throw.
BatchGetAll(requestItems, n, st) ==
    /\ pc = "idle"
    /\ op' = "get"
    /\ input' = requestItems
    /\ steady' = TRUE
    /\ hasCallback' = FALSE
    /\ UNCHANGED <<reported, settings, putLog, scanVars, waitVars, consec,
                   nResidual, nRaised, residualUnits, served, returned,
                   abandoned, raisedError>>
    /\ IF ~requestItems.present
       THEN /\ pc' = "done"
            /\ retval' = << <<>> >>
            /\ UNCHANGED <<nUnits, unprocessed, request, results, backoff, error,
                           calls, stored, submits, caller>>
       ELSE IF ~SingleTable(requestItems.tables)
       THEN /\ pc' = "failed"
            /\ error' = "multiTableGet"
            /\ UNCHANGED <<nUnits, unprocessed, request, results, backoff, retval,
                           calls, stored, submits, caller>>
       ELSE /\ nUnits' = n
            /\ stored' = st
            /\ results' = <<>>
            /\ backoff' = BackoffStart
            /\ error' = error
            /\ GetLoop(Range1(n), <<>>, [u \in 1..n |-> 0])
            /\ caller' = PrivateCopy(CallerInput(Range1(n)), unprocessed', startKey')

\* The response of a batch get arrives; unp is its UnprocessedKeys[table].Keys.
GetRespond(unp) ==
    /\ op = "get"
    /\ pc = "inflight"
    /\ Responded(unp)
    /\ LET responseObjects == Found(Processed(request, unp))
           newResults == Accumulate(results, responseObjects)
       IN
       /\ results' = newResults
       /\ returned' = returned \o responseObjects
       /\ IF Len(unp) # 0
          THEN /\ unprocessed' = Unshift(unprocessed, unp)
               /\ Wait(backoff)
               /\ pc' = "waiting"
               /\ UNCHANGED <<request, backoff, retval, calls, submits>>
          ELSE /\ backoff' = BackoffReset
               /\ UNCHANGED waitVars
               /\ GetLoop(unprocessed, newResults, submits)
    /\ UNCHANGED <<cfgVars, idVars, putLog, scanVars, error, nRaised, abandoned, raisedError>>
    /\ caller' = PrivateCopy(caller, unprocessed', startKey')

GetResponse == \E unp \in BackendResidual(request, MaxCalls) : GetRespond(unp)

\* Faulty variant: the error is caught and the records so far are returned.
GetRaiseSwallowed(e) ==
    /\ op = "get"
    /\ pc = "inflight"
    /\ pc' = "done"
    /\ retval' = <<results>>
    /\ raisedError' = e
    /\ nRaised' = nRaised + 1
    /\ UNCHANGED <<reported, cfgVars, idVars, putLog, scanVars, waitVars,
                   unprocessed, request, results, backoff, error, calls,
                   consec, nResidual, residualUnits, served, returned,
                   abandoned, submits>>
    /\ caller' = PrivateCopy(caller, unprocessed', startKey')

\* dynamodb.send rejects: nothing catches it, batchGetAll rejects with it.
GetRaise(e) ==
    /\ op = "get"
    /\ pc = "inflight"
    /\ pc' = "failed"
    /\ error' = e
    /\ raisedError' = e
    /\ nRaised' = nRaised + 1
    /\ UNCHANGED <<reported, cfgVars, idVars, putLog, scanVars, waitVars,
                   unprocessed, request, results, backoff, retval, calls,
                   consec, nResidual, residualUnits, served, returned,
                   abandoned, submits>>
    /\ caller' = PrivateCopy(caller, unprocessed', startKey')

\* The timer of wait(backoff) fires: grow the backoff and loop.
GetWaitDone ==
    /\ op = "get"
    /\ pc = "waiting"
    /\ backoff' = BackoffGrow(backoff)
    /\ GetLoop(unprocessed, results, submits)
    /\ reported' = <<>>
    /\ UNCHANGED <<cfgVars, idVars, putLog, scanVars, waitVars, results, error, consec,
                   nResidual, nRaised, residualUnits, served, returned,
                   abandoned, raisedError>>
    /\ caller' = PrivateCopy(caller, unprocessed', startKey')

----------------------------------------------------------------------------
(* batchPutAll *)

\* The head of the while loop: send the next chunk, or return.
PutLoop(q, sub, cb, lg) ==
    IF Len(q) # 0
    THEN LET s == Splice(q, ChunkSize(q, batchWriteLimit)) IN
         /\ request' = s.removed
         /\ unprocessed' = s.rest
         /\ logged' = Logged(cb, lg, ProgressArg(s.rest, s.removed))
         /\ logsAtSend' = Logged(cb, lg, ProgressArg(s.rest, s.removed)).n
         /\ Send(sub, s.removed)
         /\ pc' = "inflight"
         /\ retval' = retval
    ELSE /\ request' = request
         /\ logged' = lg
         /\ logsAtSend' = logsAtSend
         /\ unprocessed' = q
         /\ calls' = calls
         /\ submits' = sub
         /\ pc' = "done"
         /\ retval' = << <<>> >>

\* batchPutAll(dynamodb, table, items) up to its first await, return or throw.
BatchPutAll(table, n, cb) ==
    /\ pc = "idle"
    /\ op' = "put"
    /\ input' = [present |-> TRUE, tables |-> {table}]
    /\ steady' = TRUE
    /\ hasCallback' = cb
    /\ UNCHANGED <<reported, settings, scanVars, waitVars, consec, nResidual,
                   nRaised, residualUnits, served, returned, abandoned,
                   raisedError, stored, results>>
    /\ IF ~SingleTable(input'.tables)
       THEN /\ pc' = "failed"
            /\ error' = "multiTablePut"
            /\ logged' = Logged(cb, NoLog, "starting batch write")
            /\ UNCHANGED <<nUnits, unprocessed, request, backoff, retval, calls,
                           submits, logsAtSend>>
       ELSE /\ nUnits' = n
            /\ backoff' = BackoffStart
            /\ error' = error
            /\ PutLoop(Range1(n), [u \in 1..n |-> 0], cb,
                       Logged(cb, NoLog, "starting batch write"))
    /\ caller' = PrivateCopy(CallerInput(Range1(n)), unprocessed', startKey')

\* The response of a batch write arrives; unp is its UnprocessedItems[table].
PutRespond(unp) ==
    /\ op = "put"
    /\ pc = "inflight"
    /\ Responded(unp)
    /\ IF Len(unp) # 0
       THEN /\ unprocessed' = Unshift(unprocessed, unp)
            /\ Wait(backoff)
            /\ pc' = "waiting"
            /\ UNCHANGED <<request, backoff, retval, calls, submits, putLog>>
       ELSE /\ backoff' = BackoffReset
            /\ UNCHANGED waitVars
            /\ PutLoop(unprocessed, submits, hasCallback, logged)
    /\ UNCHANGED <<cfgVars, idVars, scanVars, results, returned, error, nRaised,
                   abandoned, raisedError>>
    /\ caller' = PrivateCopy(caller, unprocessed', startKey')

PutResponse == \E unp \in BackendResidual(request, MaxCalls) : PutRespond(unp)

\* Faulty variant: the chunk of the failed call is put back and sent again.
PutRaiseRetried(e) ==
    /\ op = "put"
    /\ pc = "inflight"
    /\ raisedError' = e
    /\ nRaised' = nRaised + 1
    /\ abandoned' = abandoned \cup SeqToSet(request)
    /\ consec' = 0
    /\ backoff' = BackoffReset
    /\ PutLoop(Unshift(unprocessed, request), submits, hasCallback, logged)
    /\ UNCHANGED <<reported, cfgVars, idVars, scanVars, waitVars, results,
                   returned, error, nResidual, residualUnits, served>>
    /\ caller' = PrivateCopy(caller, unprocessed', startKey')

\* dynamodb.send rejects: .catch logs the chunk and yields undefined, which the
\* loop treats as a response without unprocessed items.
PutRaise(e) ==
    /\ op = "put"
    /\ pc = "inflight"
    /\ raisedError' = e
    /\ nRaised' = nRaised + 1
    /\ abandoned' = abandoned \cup SeqToSet(request)
    /\ consec' = 0
    /\ backoff' = BackoffReset
    /\ PutLoop(unprocessed, submits, hasCallback, logged)
    /\ UNCHANGED <<reported, cfgVars, idVars, scanVars, waitVars, results,
                   returned, error, nResidual, residualUnits, served>>
    /\ caller' = PrivateCopy(caller, unprocessed', startKey')

\* The timer of wait(backoff) fires: grow the backoff and loop.
PutWaitDone ==
    /\ op = "put"
    /\ pc = "waiting"
    /\ backoff' = BackoffGrow(backoff)
    /\ PutLoop(unprocessed, submits, hasCallback, logged)
    /\ reported' = <<>>
    /\ UNCHANGED <<cfgVars, idVars, scanVars, waitVars, results, returned, error,
                   consec, nResidual, nRaised, residualUnits, served, abandoned,
                   raisedError>>
    /\ caller' = PrivateCopy(caller, unprocessed', startKey')

----------------------------------------------------------------------------
(* batchScanAll *)

\* One pass of the do-while body up to its await: merge the cursor, send.
ScanSend(key) ==
    /\ startKey' = MergeCursor(startKey, key)
    /\ sentCursors' = Append(sentCursors, MergeCursor(startKey, key))
    /\ calls' = calls + 1
    /\ pc' = "inflight"
    /\ retval' = retval

\* batchScanAll(dynamodb, input) up to its first await.
BatchScanAll(plan) ==
    /\ pc = "idle"
    /\ op' = "scan"
    /\ input' = input
    /\ steady' = TRUE
    /\ scanPlan' = plan
    /\ results' = <<>>
    /\ lastEvalKey' = Undefined
    /\ ScanSend(Undefined)
    /\ hasCallback' = FALSE
    /\ UNCHANGED <<reported, settings, putLog, waitVars, nUnits, unprocessed,
                   request, backoff, error, consec, nResidual, nRaised,
                   residualUnits, stored, served, returned, abandoned,
                   submits, raisedError>>
    /\ caller' = PrivateCopy(CallerInput(<<>>), unprocessed', startKey')

\* The response of a scan arrives with size items (Items absent: size 0).
ScanResponse(size) ==
    /\ op = "scan"
    /\ pc = "inflight"
    /\ LET newResults == Accumulate(results, Page(calls, size)) IN
       /\ results' = newResults
       /\ returned' = returned \o Page(calls, size)
       /\ lastEvalKey' = Cursor(calls)
       /\ IF ScanContinue(Cursor(calls))
          THEN ScanSend(Cursor(calls))
          ELSE /\ pc' = "done"
               /\ retval' = <<newResults>>
               /\ UNCHANGED <<startKey, sentCursors, calls>>
    /\ UNCHANGED <<reported, cfgVars, idVars, putLog, waitVars, scanPlan,
                   unprocessed, request, backoff, error, consec, nResidual,
                   nRaised, residualUnits, served, abandoned, submits,
                   raisedError>>
    /\ caller' = PrivateCopy(caller, unprocessed', startKey')

\* dynamodb.send rejects: nothing catches it, batchScanAll rejects with it.
ScanRaise(e) ==
    /\ op = "scan"
    /\ pc = "inflight"
    /\ pc' = "failed"
    /\ error' = e
    /\ raisedError' = e
    /\ nRaised' = nRaised + 1
    /\ UNCHANGED <<reported, cfgVars, idVars, putLog, scanVars, waitVars,
                   unprocessed, request, results, backoff, retval, calls,
                   consec, nResidual, residualUnits, served, returned,
                   abandoned, submits>>
    /\ caller' = PrivateCopy(caller, unprocessed', startKey')

----------------------------------------------------------------------------
(* Specifications *)

\* Any call of the three helpers, under the default settings.
Next ==
    \/ \E ri \in RequestItemsChoices, n \in KeyCounts :
         \E st \in StoredChoices(n) : BatchGetAll(ri, n, st)
    \/ GetResponse
    \/ \E e \in BackendErrors : GetRaise(e)
    \/ GetWaitDone
    \/ \E t \in TableNames, n \in ItemCounts, cb \in BOOLEAN : BatchPutAll(t, n, cb)
    \/ PutResponse
    \/ \E e \in BackendErrors : PutRaise(e)
    \/ PutWaitDone
    \/ \E plan \in ScanPlans : BatchScanAll(plan)
    \/ \E size \in PageSizes : ScanResponse(size)
    \/ \E e \in BackendErrors : ScanRaise(e)

Spec == Init /\ [][Next]_vars

\* Short calls, with configure running at any moment before and during them.
NextCfg ==
    \/ \E oi \in InitialChoices, om \in MaxChoices, of \in FactorChoices :
         Configure(oi, om, of)
    \/ \E n \in CfgCounts : BatchGetAll(OneTable, n, 1..n)
    \/ \E unp \in BackendResidual(request, MaxCfgCalls) : GetRespond(unp)
    \/ GetWaitDone
    \/ \E n \in CfgCounts : BatchPutAll("t1", n, FALSE)
    \/ \E unp \in BackendResidual(request, MaxCfgCalls) : PutRespond(unp)
    \/ \E e \in BackendErrors : PutRaise(e)
    \/ PutWaitDone

SpecCfg == Init /\ [][NextCfg]_vars

\* The end-to-end scenario: batchGetAll against the backend of E2EResidual.
NextE2E ==
    \/ \E n \in E2ECounts : BatchGetAll(OneTable, n, 1..n)
    \/ GetRespond(E2EResidual(request))
    \/ GetWaitDone

SpecE2E == Init /\ [][NextE2E]_vars

\* Calls against a backend that answers every request and stops reporting
\* unprocessed units from its MaxLiveCalls-th call on, with timers that fire.
LiveCounts == {1, 2}

GetResponseLive ==
    \E unp \in BackendResidual(request, MaxLiveCalls) : GetRespond(unp)

PutResponseLive ==
    \E unp \in BackendResidual(request, MaxLiveCalls) : PutRespond(unp)

NextLive ==
    \/ \E n \in LiveCounts \cup {batchGetLimit + MaxExtra} :
         BatchGetAll(OneTable, n, 1..n)
    \/ GetResponseLive
    \/ GetWaitDone
    \/ \E n \in LiveCounts \cup {batchWriteLimit + MaxExtra} :
         BatchPutAll("t1", n, FALSE)
    \/ PutResponseLive
    \/ PutWaitDone

SpecLive ==
    /\ Init
    /\ [][NextLive]_vars
    /\ WF_vars(GetResponseLive)
    /\ WF_vars(GetWaitDone)
    /\ WF_vars(PutResponseLive)
    /\ WF_vars(PutWaitDone)

\* Calls on a non-empty input against a backend that reports every chunk as
\* unprocessed, followed up to their MaxAdvCalls-th backend call.
AdvCounts == {1, 2, 3}

GetResponseAdv == GetRespond(request)

PutResponseAdv == PutRespond(request)

GetWaitDoneAdv == calls < MaxAdvCalls /\ GetWaitDone

PutWaitDoneAdv == calls < MaxAdvCalls /\ PutWaitDone

NextAdv ==
    \/ \E n \in AdvCounts \cup {batchGetLimit + MaxExtra} :
         BatchGetAll(OneTable, n, 1..n)
    \/ GetResponseAdv
    \/ GetWaitDoneAdv
    \/ \E n \in AdvCounts \cup {batchWriteLimit + MaxExtra} :
         BatchPutAll("t1", n, FALSE)
    \/ PutResponseAdv
    \/ PutWaitDoneAdv

SpecAdv ==
    /\ Init
    /\ [][NextAdv]_vars
    /\ WF_vars(GetResponseAdv)
    /\ WF_vars(GetWaitDoneAdv)
    /\ WF_vars(PutResponseAdv)
    /\ WF_vars(PutWaitDoneAdv)

----------------------------------------------------------------------------
(* Properties *)

InCall == pc \in {"inflight", "waiting"}

\* The units of the request in flight.
InFlight == IF pc = "inflight" THEN SeqToSet(request) ELSE {}

Pending == SeqToSet(unprocessed) \cup InFlight

CeilDiv(n, d) == (n + d - 1) \div d

Limit == IF op = "put" THEN batchWriteLimit ELSE batchGetLimit

\* C1: no key is lost by batchGetAll.  While the backend answers every chunk
\* (processing some keys, reporting the others as unprocessed), each requested
\* key is pending (queued or in flight) or has been processed by the backend,
\* its record appended to the results when the table holds one; when the call
\* returns, the queue is empty and every key has been processed.
C1_NoKeyLost ==
    (op = "get" /\ pc \in {"inflight", "waiting", "done"} /\ input.present) =>
        /\ \A k \in 1..nUnits :
             \/ k \in Pending
             \/ /\ k \in served
                /\ k \in stored => k \in SeqToSet(results)
        /\ pc = "done" =>
             /\ unprocessed = <<>>
             /\ \A k \in 1..nUnits : k \in served
             /\ \A k \in stored : k \in SeqToSet(retval[1])

C1_Witness ==
    /\ op = "get" /\ pc = "done"
    /\ nUnits > batchGetLimit
    /\ nResidual >= 2
    /\ Len(retval[1]) = nUnits

\* The state part of C2.
C2_State ==
    op = "put" =>
        /\ pc # "failed"
        /\ error = "none"
        /\ abandoned \cap Pending = {}
        /\ (pc = "done" /\ nRaised = calls) =>
             /\ retval = << <<>> >>
             /\ calls = CeilDiv(nUnits, batchWriteLimit)
             /\ \A u \in 1..nUnits : submits[u] = 1

\* The step part of C2: an abandoned unit gets no further submission.
C2_NeverResubmitted ==
    op = "put" => \A u \in abandoned : submits'[u] = submits[u]

\* C2: batchPutAll is fail-soft per chunk.  Whatever calls raise, no error
\* reaches the caller, no unit of a chunk whose call raised is pending or in
\* flight again, and when every call raised the call resolves after exactly
\* ceil(n / 25) backend calls with each unit submitted exactly once.
C2_PutFailSoft == [] C2_State /\ [][C2_NeverResubmitted]_vars

C2_Witness ==
    /\ op = "put" /\ pc = "done"
    /\ nUnits > 2 * batchWriteLimit
    /\ nRaised = calls
    /\ calls = 3

\* The state part of C3.
C3_FailedState ==
    (op \in {"get", "scan"} /\ nRaised > 0) =>
        /\ pc = "failed"
        /\ nRaised = 1
        /\ error = raisedError
        /\ error \in BackendErrors
        /\ retval = <<>>

\* The step part of C3: a failed call stays failed and sends nothing.
C3_NoFurtherCall ==
    (pc = "failed") => (pc' = "failed" /\ calls' = calls /\ retval' = <<>>)

\* C3: batchGetAll and batchScanAll are fail-loud.  Once a backend call has
\* raised, the call has failed with that same error and has returned nothing
\* (the records of earlier rounds included), and it issues no further call.
C3_FailLoud == [] C3_FailedState /\ [][C3_NoFurtherCall]_vars

C3_Witness ==
    /\ op = "get" /\ pc = "failed"
    /\ error = "E2"
    /\ calls >= 2
    /\ Len(results) > 0

\* The state part of C4: the size of the request in flight.
C4_ChunkSizes ==
    (op \in {"get", "put"} /\ pc = "inflight") =>
        (1 <= Len(request) /\ Len(request) <= Limit)

\* The step part of C4: what a step that sends a request takes from the queue.
C4_Chunked ==
    (op' \in {"get", "put"} /\ calls' = calls + 1) =>
        LET L == IF op' = "put" THEN batchWriteLimit ELSE batchGetLimit
            \* the queue as it stands when the loop head is reached
            q == IF pc = "idle" THEN Range1(nUnits') ELSE unprocessed
            k == IF Len(q) < L THEN Len(q) ELSE L
        IN
        /\ k >= 1
        /\ request' = SubSeq(q, 1, k)
        /\ unprocessed' = SubSeq(q, k + 1, Len(q))
        /\ Len(unprocessed') = Len(q) - k

\* C4: chunking.  Every batch get / batch write request carries the first
\* min(|queue|, L) units of the pending queue, in queue order, and the queue
\* keeps exactly the rest; so a request carries between 1 and L units.
C4_Chunking == [] C4_ChunkSizes /\ [][C4_Chunked]_vars

C4_Witness ==
    /\ op = "get" /\ pc = "inflight"
    /\ Len(request) = batchGetLimit
    /\ Len(unprocessed) > 0
    /\ nResidual > 0

\* C5: the list batchGetAll returns is the concatenation, in round order, of
\* the record lists the backend returned, rounds with unprocessed keys included.
C5_ResultsAreReturned ==
    op = "get" =>
        /\ pc \in {"inflight", "waiting"} => results = returned
        /\ pc = "done" => retval = <<returned>>

C5_Witness ==
    /\ op = "get" /\ pc = "done"
    /\ nUnits = 2
    /\ calls = 2
    /\ residualUnits = 1
    /\ Len(retval[1]) = 2

\* The wait of the c-th consecutive round with residual, under the default
\* settings: 1000, 2000, 4000, 8000, 16000, then 30000.
ExpectedWait(c) ==
    IF c >= 6 THEN 30000 ELSE <<1000, 2000, 4000, 8000, 16000>>[c]

DefaultSettings ==
    /\ backoffInitial = 1000
    /\ backoffMax = 30000
    /\ backoffFactor = 2

\* C6: backoff sequence.  Under the default settings the wait started after
\* the c-th consecutive round with residual is 1000, 2000, 4000, 8000, 16000
\* for c = 1..5 and 30000 from the sixth on; a round without residual ends
\* the run, so the next wait is 1000 again.
C6_BackoffSequence ==
    (op \in {"get", "put"} /\ pc = "waiting" /\ DefaultSettings /\ steady) =>
        /\ consec >= 1
        /\ lastWait = ExpectedWait(consec)
        /\ lastWait = backoff

C6_Witness ==
    /\ op = "put" /\ pc = "waiting"
    /\ consec = 7
    /\ lastWait = 30000

\* A run of residual rounds that starts again at 1000 after earlier runs.
C6_WitnessReset ==
    /\ op = "get" /\ pc = "waiting"
    /\ consec = 1
    /\ nResidual >= 4
    /\ lastWait = 1000

\* C7 as claimed: during a call the backoff lies between backoffInitial and
\* backoffMax, whatever numbers configure has set, before or during the call.
C7_Original ==
    (op \in {"get", "put"} /\ InCall) =>
        (backoffInitial <= backoff /\ backoff <= backoffMax)

WellFormedSettings ==
    /\ 0 <= backoffInitial
    /\ backoffInitial <= backoffMax
    /\ backoffFactor >= 1

\* C7, amended: during a call the backoff lies between backoffInitial and
\* backoffMax provided the settings satisfy 0 <= backoffInitial <= backoffMax
\* and backoffFactor >= 1 and have not changed since the call started.
C7_BackoffInRange ==
    (op \in {"get", "put"} /\ InCall /\ steady /\ WellFormedSettings) =>
        (backoffInitial <= backoff /\ backoff <= backoffMax)

C7_Witness ==
    /\ op = "get" /\ pc = "inflight"
    /\ steady /\ WellFormedSettings
    /\ ~DefaultSettings
    /\ calls = 3
    /\ backoff = backoffMax

\* C8: multi-table rejection.  A call whose request map names two or more
\* tables has failed with the multi-table error, with no backend call issued
\* and no wait started; and that error is raised in no other way than before
\* the first backend call.
C8_MultiTableRejected ==
    /\ (op \in {"get", "put"} /\ pc # "idle" /\ Cardinality(input.tables) >= 2) =>
         /\ pc = "failed"
         /\ error = (IF op = "get" THEN "multiTableGet" ELSE "multiTablePut")
         /\ calls = 0
         /\ nWaits = 0
         /\ retval = <<>>
    /\ error \in {"multiTableGet", "multiTablePut"} =>
         (pc = "failed" /\ calls = 0 /\ nWaits = 0)

C8_Witness ==
    /\ op = "get" /\ pc = "failed"
    /\ Cardinality(input.tables) = 2
    /\ error = "multiTableGet"

\* C9: scan exhaustion.  Against a backend that returns the cursors
\* c1, ..., ck and then none, batchScanAll issues exactly k + 1 calls, the
\* first without a cursor and each later one with the cursor of the response
\* before it, and returns the records of all responses in call order.
C9_ScanExhaustion ==
    op = "scan" =>
        /\ calls <= Len(scanPlan) + 1
        /\ sentCursors = SubSeq(<<Undefined>> \o scanPlan, 1, calls)
        /\ pc = "inflight" => results = returned
        /\ pc = "done" =>
             /\ calls = Len(scanPlan) + 1
             /\ lastEvalKey = Undefined
             /\ retval = <<returned>>

C9_Witness ==
    /\ op = "scan" /\ pc = "done"
    /\ scanPlan = <<1, 2>>
    /\ calls = 3
    /\ Len(retval[1]) = 25
    /\ retval[1][11] = 201

\* C10 as claimed: 250 keys against the scenario backend take exactly 3 calls.
C10_Original ==
    (op = "get" /\ pc = "done" /\ nUnits = 250) =>
        /\ calls = 3
        /\ Len(retval[1]) = 250

\* C10, amended: 250 keys against the scenario backend take exactly 4 calls
\* (chunks of 100, 100, 100 and 10 keys: 250 keys plus 60 resubmitted ones);
\* the waits are 1000 and 2000, the backoff is 4000 during the third call and
\* back at 1000 after it; 250 records are returned.
C10_EndToEnd ==
    (op = "get" /\ nUnits = 250) =>
        /\ calls <= 4
        /\ pc = "inflight" =>
             /\ backoff = <<1000, 2000, 4000, 1000>>[calls]
             /\ Len(request) = <<100, 100, 100, 10>>[calls]
        /\ pc = "waiting" =>
             /\ calls <= 2
             /\ nWaits = calls
             /\ lastWait = <<1000, 2000>>[calls]
        /\ pc = "done" =>
             /\ calls = 4
             /\ nWaits = 2
             /\ backoff = 1000
             /\ Len(retval[1]) = 250
             /\ SeqToSet(retval[1]) = 1..250

C10_Witness ==
    /\ op = "get" /\ pc = "done"
    /\ nUnits = 250
    /\ calls = 4
    /\ residualUnits = 60

\* The decimal strings of the queue sizes a call on nUnits units can see.
IsCount(str) == \E i \in 0..nUnits : str = ToString(i)

\* C11 as claimed: the callback is invoked as often as the backend is called,
\* and every argument is a count.
C11_Original ==
    (op = "put" /\ hasCallback) =>
        /\ logged.n = calls
        /\ IsCount(logged.last)

\* C11, amended: given a callback, batchPutAll invokes it once at the start
\* with "starting batch write" and then once per round, before that round's
\* backend call, with the decimal string of the size of the pending queue
\* after the round's chunk was taken: calls + 1 invocations in all.  Without
\* a callback nothing is invoked.
C11_ProgressCallback ==
    op = "put" =>
        IF hasCallback
        THEN /\ logged.n = calls + 1
             /\ calls = 0 => logged.last = "starting batch write"
             /\ calls > 0 =>
                  /\ logsAtSend = calls + 1
                  /\ IsCount(logged.last)
             /\ pc = "inflight" => logged.last = ToString(Len(unprocessed))
        ELSE logged = NoLog /\ logsAtSend = 0

C11_Witness ==
    /\ op = "put" /\ pc = "inflight"
    /\ hasCallback
    /\ calls = 2
    /\ logged.n = 3
    /\ Len(unprocessed) = 1
    /\ logged.last = "1"

\* A settled get that returned the empty list without a backend call or wait.
ReturnedEmpty ==
    /\ pc = "done"
    /\ retval = << <<>> >>
    /\ error = "none"
    /\ calls = 0
    /\ nWaits = 0

\* C12: empty get.  A batchGetAll request with no keys to fetch (no request
\* map, a request map without a table entry, or one table with an empty key
\* list) returns the empty list and issues no backend call and no wait.
C12_EmptyGet ==
    (op = "get" /\ pc # "idle") =>
        /\ ~input.present => ReturnedEmpty
        /\ (input.present /\ input.tables = {}) => ReturnedEmpty
        /\ (input.present /\ Cardinality(input.tables) = 1 /\ nUnits = 0) =>
             ReturnedEmpty

\* The two cases of C12 the code does satisfy: no request map, and one table
\* with an empty key list.
C12_EmptyGetOtherCases ==
    (op = "get" /\ pc # "idle") =>
        /\ ~input.present => ReturnedEmpty
        /\ (input.present /\ Cardinality(input.tables) = 1 /\ nUnits = 0) =>
             ReturnedEmpty

\* C13: configure frame condition.  configure(options) sets each of
\* backoffInitial, backoffMax, backoffFactor for which options holds a number
\* to that number and leaves the others (absent, or not a number) unchanged;
\* configure({}) changes nothing; and nothing else of the module changes.
C13_ConfigureFrame ==
    [][\A oi \in InitialChoices, om \in MaxChoices, of \in FactorChoices :
         Configure(oi, om, of) =>
           /\ backoffInitial' =
                (IF oi.type = "number" THEN oi.value ELSE backoffInitial)
           /\ backoffMax' = (IF om.type = "number" THEN om.value ELSE backoffMax)
           /\ backoffFactor' =
                (IF of.type = "number" THEN of.value ELSE backoffFactor)
           /\ ({oi.type, om.type, of.type} = {"undefined"} =>
                 settings' = settings)
           /\ <<pc, backoff, unprocessed, request, results, calls, nWaits>>' =
                <<pc, backoff, unprocessed, request, results, calls, nWaits>>
      ]_vars

\* One setting was given as a number, the two others were left alone.
C13_Witness ==
    /\ pc = "idle"
    /\ backoffInitial = 3 * DefaultBackoffInitial
    /\ backoffMax = DefaultBackoffMax
    /\ backoffFactor = DefaultBackoffFactor

\* The number of units submitted so far: the sizes of all chunks sent, summed.
RECURSIVE SumTo(_, _)
SumTo(f, n) == IF n = 0 THEN 0 ELSE f[n] + SumTo(f, n - 1)

SubmittedUnits == SumTo(submits, Len(submits))

\* C14: chunk accounting.  During a batchGetAll or batchPutAll call the units
\* submitted so far are the original units, minus the units still queued, plus
\* the unprocessed units reported so far; when the call returns, the sizes of
\* all chunks add up to the original units plus all reported unprocessed units.
C14_ChunkAccounting ==
    (op \in {"get", "put"} /\ pc # "idle") =>
        /\ SubmittedUnits = nUnits - Len(unprocessed) + residualUnits
        /\ pc = "done" => SubmittedUnits = nUnits + residualUnits

C14_Witness ==
    /\ op = "put" /\ pc = "done"
    /\ nUnits > batchWriteLimit
    /\ residualUnits > batchWriteLimit
    /\ nRaised > 0
    /\ SubmittedUnits = nUnits + residualUnits

\* The state part of C15.
C15_State ==
    /\ op \in {"get", "put"} =>
         /\ nWaits = nResidual
         /\ pc = "waiting" => (consec >= 1 /\ lastWait = backoff)
         /\ pc = "done" => consec = 0
    /\ op = "scan" => nWaits = 0

\* The step part of C15: a wait starts in the step that receives a residual,
\* with the backoff not yet grown; a later request is sent from a wait exactly
\* when the response before it had residual; a put round that raised starts
\* no wait and resets the backoff.
C15_Step ==
    /\ nWaits' # nWaits =>
         /\ nWaits' = nWaits + 1
         /\ nResidual' = nResidual + 1
         /\ lastWait' = backoff
         /\ backoff' = backoff
         /\ pc = "inflight" /\ pc' = "waiting"
         /\ calls' = calls
    /\ (op \in {"get", "put"} /\ calls >= 1 /\ calls' = calls + 1) =>
         /\ (pc = "waiting") <=> (consec' >= 1)
         /\ nWaits' = nWaits
    /\ (op = "put" /\ nRaised' = nRaised + 1) =>
         /\ nWaits' = nWaits
         /\ pc' # "waiting"
         /\ backoff' = backoffInitial

\* C15: waits happen exactly after partial failure.  In batchGetAll and
\* batchPutAll one wait of the current backoff (before it is grown) separates
\* two backend calls if the earlier one reported unprocessed units, and none
\* otherwise; a put round that raised counts as a round without residual; no
\* wait follows the last round; batchScanAll never waits.
C15_WaitsAfterResidual == [] C15_State /\ [][C15_Step]_vars

C15_Witness ==
    /\ op = "put" /\ pc = "done"
    /\ nRaised > 0
    /\ nWaits >= 2
    /\ calls > nWaits + nRaised

\* The state part of C16: during the wait the reported units head the queue.
C16_State ==
    (op \in {"get", "put"} /\ pc = "waiting") =>
        /\ Len(reported) # 0
        /\ Len(reported) <= Len(unprocessed)
        /\ SubSeq(unprocessed, 1, Len(reported)) = reported
        /\ \A u \in SeqToSet(reported) : submits[u] >= 1

\* The step part of C16: the round that reports R makes the queue R followed
\* by the old queue; the request sent after the wait starts with R.
C16_Step ==
    /\ (op \in {"get", "put"} /\ nResidual' = nResidual + 1) =>
         /\ Len(reported') # 0
         /\ unprocessed' = reported' \o unprocessed
    /\ (op \in {"get", "put"} /\ pc = "waiting" /\ calls' = calls + 1) =>
         /\ Len(reported) <= Len(request')
         /\ SubSeq(request', 1, Len(reported)) = reported
         /\ \A i \in 1..Len(request') :
              submits[request'[i]] = 0 => i > Len(reported)

\* C16: retry priority at the head.  When a round of batchGetAll or
\* batchPutAll reports a non-empty unprocessed list R, the pending queue
\* becomes R, in the backend's order, followed by the units that were pending,
\* in unchanged order; the next chunk starts with the units of R and no
\* never-submitted unit goes before a unit of R.
C16_RetryAtHead == [] C16_State /\ [][C16_Step]_vars

\* A get call that resubmits the reported list <<last, first>> of its first
\* chunk ahead of a key that was never submitted.
C16_Witness ==
    /\ op = "get" /\ pc = "inflight"
    /\ calls = 2
    /\ Len(request) >= 3
    /\ request[1] = batchGetLimit /\ request[2] = 1
    /\ submits[request[3]] = 1
    /\ request[3] = batchGetLimit + 1

\* C17: configuration change during a call.  A change of the settings while
\* a batchGetAll or batchPutAll call is in a backend call or in a backoff wait
\* changes neither the call's current backoff nor the wait already started;
\* the growth computed when a wait has elapsed uses the backoffFactor and
\* backoffMax in force at that moment, and the reset after a round without
\* residual uses the backoffInitial in force at that moment.
C17_ConfigureDuringCall ==
    [][/\ (InCall /\ settings' # settings) =>
            /\ backoff' = backoff
            /\ <<nWaits, lastWait>>' = <<nWaits, lastWait>>
            /\ <<pc, calls, unprocessed, request>>' =
                 <<pc, calls, unprocessed, request>>
       /\ (op \in {"get", "put"} /\ pc = "waiting" /\ pc' # "waiting") =>
            /\ settings' = settings
            /\ backoff' = Min(backoff * backoffFactor, backoffMax)
       /\ (op \in {"get", "put"} /\ pc = "inflight"
             /\ (pc' = "done" \/ calls' = calls + 1)) =>
            /\ settings' = settings
            /\ backoff' = backoffInitial
      ]_vars

\* The factor was set to 0 while the call was suspended: the wait of 1000 ms
\* that had started was kept, the growth after it gave 0.
C17_Witness ==
    /\ op = "get" /\ pc = "inflight"
    /\ ~steady
    /\ calls = 2 /\ nWaits = 1
    /\ lastWait = DefaultBackoffInitial
    /\ backoffFactor = 0
    /\ backoffMax = DefaultBackoffMax
    /\ backoff = 0

\* C18: eventual completion.  When every backend call is answered, every wait
\* elapses and the backend does not report unprocessed units forever, a
\* batchGetAll or batchPutAll call that is under way eventually returns, with
\* an empty pending queue and every unit processed by the backend.
C18_EventualCompletion ==
    (op \in {"get", "put"} /\ InCall) ~>
        (pc = "done" /\ Len(unprocessed) = 0 /\ served = 1..nUnits)

\* A call that returned after rounds with residual, over more than one chunk.
C18_Witness ==
    /\ op \in {"get", "put"} /\ pc = "done"
    /\ Len(unprocessed) = 0
    /\ nUnits > Limit
    /\ nResidual >= 2
    /\ served = 1..nUnits

\* C19 as stated: the pending queue never becomes empty.
C19_Original ==
    (op \in {"get", "put"} /\ nUnits > 0 /\ pc # "idle") =>
        Len(unprocessed) # 0

\* The state part of C19: the call has not returned or failed, the units
\* queued or in flight are never none, and the queue is not empty during a
\* wait, which is when the loop condition is evaluated next.
C19_State ==
    (op \in {"get", "put"} /\ nUnits > 0 /\ pc # "idle") =>
        /\ InCall
        /\ Len(retval) = 0 /\ error = "none"
        /\ Pending = 1..nUnits
        /\ pc = "waiting" => Len(unprocessed) # 0
        /\ served = {}

\* The step part of C19: once a wait of backoffMax was made, every later
\* wait is of backoffMax.
C19_Step ==
    (lastWait = backoffMax /\ nWaits' # nWaits) => lastWait' = backoffMax

\* C19, amended: no retry cap.  Against a backend that always reports the
\* whole chunk as unprocessed, a batchGetAll or batchPutAll call on a
\* non-empty input never returns: it issues more than N backend calls for
\* every N (below the bound of the model), the units queued or in flight are
\* never none and the queue is not empty when the loop condition is
\* evaluated, and the wait stays at backoffMax once reached.  The queue itself
\* is empty during a backend call that carries all pending units.
C19_NoRetryCap ==
    /\ [] C19_State
    /\ [][C19_Step]_vars
    /\ \A N \in 0..(MaxAdvCalls - 1) : InCall ~> (calls > N)

\* The seventh and later waits are of backoffMax.
C19_Witness ==
    /\ op \in {"get", "put"} /\ pc = "waiting"
    /\ nWaits >= 7
    /\ consec = nWaits
    /\ lastWait = backoffMax
    /\ backoff = backoffMax

\* C20: the caller's input is left unchanged.  batchGetAll and batchPutAll
\* dequeue from and prepend to a private list, so after any sequence of rounds,
\* with residual, raised errors or a failed call, the caller's key or item
\* list holds the same units in the same order as before the call; and
\* batchScanAll never writes the cursor into the caller's request object.
C20_CallerInputUnchanged ==
    /\ [](/\ caller.units = Range1(nUnits)
          /\ caller.startKey = Undefined)
    /\ [][pc # "idle" => caller' = caller]_vars

\* A get call that failed after a round with residual and more than one chunk.
C20_Witness ==
    /\ op = "get" /\ pc = "failed"
    /\ nUnits > batchGetLimit
    /\ nResidual >= 1
    /\ Len(unprocessed) < nUnits
    /\ caller.units = Range1(nUnits)

\* A scan that sent a cursor in its request.
C20_WitnessScan ==
    /\ op = "scan" /\ pc = "done"
    /\ startKey # Undefined
    /\ caller.startKey = Undefined

====
